---- MODULE Spec2Model ----
(***************************************************************************)
(* Payment routes (Stripe card, PayPal, Google Pay, Stripe webhook) and    *)
(* the validatePayment middleware, as a state machine over HTTP requests.  *)
(* Every await of the handlers is a suspension point, so each handler is   *)
(* split into the steps between its awaits.                                *)
(***************************************************************************)
EXTENDS Integers, Sequences, FiniteSets, TLC

VARIABLES reqs, production

vars == <<reqs, production>>

(* ------------------------------ bounds --------------------------------- *)

\* users known to the authentication layer: req.user.id, metadata.userId
MaxUser == 2
\* identifiers the vendors hand out (payment intents, orders, captures)
MaxVendorId == 2
\* webhook deliveries that may be in flight together
MaxDeliveries == 2

(* --------------------------- JavaScript values ------------------------- *)

Undef == [t |-> "undefined"]
Str(s) == [t |-> "string", v |-> s]
Num(n) == [t |-> "number", n |-> n]
\* a string given character by character, for the strings the code inspects
Chars(cs) == [t |-> "string", chars |-> cs]
\* an opaque identifier string, the n-th one of its kind
Tok(n) == [t |-> "string", id |-> n]
Obj(fields) == [t |-> "object", fields |-> fields]

Digits == {"0", "1", "2", "3", "4", "5", "6", "7", "8", "9"}

DigitVal(c) ==
  CASE c = "0" -> 0 [] c = "1" -> 1 [] c = "2" -> 2 [] c = "3" -> 3
    [] c = "4" -> 4 [] c = "5" -> 5 [] c = "6" -> 6 [] c = "7" -> 7
    [] c = "8" -> 8 [] c = "9" -> 9

RECURSIVE DigitsToNat(_)
DigitsToNat(cs) ==
  IF cs = <<>> THEN 0
  ELSE 10 * DigitsToNat(SubSeq(cs, 1, Len(cs) - 1)) + DigitVal(cs[Len(cs)])

RECURSIVE NatToDigits(_)
NatToDigits(n) ==
  IF n < 10 THEN <<CHOOSE c \in Digits : DigitVal(c) = n>>
  ELSE Append(NatToDigits(n \div 10), CHOOSE c \in Digits : DigitVal(c) = n % 10)

\* String(n) of an integer, as express-validator's toString renders a number
NumberToChars(n) == IF n < 0 THEN <<"-">> \o NatToDigits(-n) ELSE NatToDigits(n)

\* express-validator's toString: undefined becomes '', a string stays
ToChars(x) ==
  CASE x.t = "undefined" -> <<>>
    [] x.t = "number" -> NumberToChars(x.n)
    [] x.t = "string" -> x.chars

\* validator.js isNumeric without no_symbols, integers only:
\* an optional sign followed by at least one digit
IsNumericChars(cs) ==
  LET signed == cs # <<>> /\ cs[1] \in {"+", "-"}
      rest == IF signed THEN SubSeq(cs, 2, Len(cs)) ELSE cs
  IN  rest # <<>> /\ \A i \in 1..Len(rest) : rest[i] \in Digits

\* JavaScript ToNumber of a string that IsNumericChars accepts
CharsToNumber(cs) ==
  IF cs[1] = "-" THEN 0 - DigitsToNat(SubSeq(cs, 2, Len(cs)))
  ELSE IF cs[1] = "+" THEN DigitsToNat(SubSeq(cs, 2, Len(cs)))
  ELSE DigitsToNat(cs)

\* the number the relational operators of line 69 compare: a number is
\* itself, a numeric string is converted
ToNumber(x) == IF x.t = "number" THEN x.n ELSE CharsToNumber(x.chars)

(* -------------------------- validatePayment.js ------------------------- *)

MaxAmount == 999999

IsNumeric(x) == IsNumericChars(ToChars(x))

IsCurrencyCode(x) == x.t = "string" /\ Len(x.v) = 3

IsNonEmptyString(x) == x.t = "string" /\ x # Str("")

IsObject(x) == x.t = "object"

TokenOf(pd) == IF IsObject(pd) THEN pd.fields.token ELSE Undef

stripePaymentRules(b) ==
  (IF IsNumeric(b.amount) THEN {} ELSE {"amount"})
    \cup (IF IsCurrencyCode(b.currency) THEN {} ELSE {"currency"})
    \cup (IF IsNonEmptyString(b.paymentMethodId) THEN {} ELSE {"paymentMethodId"})

paypalPaymentRules(b) ==
  (IF IsNumeric(b.amount) THEN {} ELSE {"amount"})
    \cup (IF IsCurrencyCode(b.currency) THEN {} ELSE {"currency"})

googlePayPaymentRules(b) ==
  (IF IsNumeric(b.amount) THEN {} ELSE {"amount"})
    \cup (IF IsCurrencyCode(b.currency) THEN {} ELSE {"currency"})
    \cup (IF IsObject(b.paymentData) THEN {} ELSE {"paymentData"})
    \cup (IF IsNonEmptyString(TokenOf(b.paymentData)) THEN {} ELSE {"paymentData.token"})

\* the switch with an unknown method falling into the card rules
SelectRulesDefaultCard(method) ==
  CASE method = Str("paypal") -> "paypal"
    [] method = Str("google_pay") -> "google_pay"
    [] OTHER -> "stripe"

\* the switch of validatePayment: the rule set of a method, "none" at default
SelectRules(method) ==
  CASE method = Str("card") -> "stripe"
    [] method = Str("paypal") -> "paypal"
    [] method = Str("google_pay") -> "google_pay"
    [] OTHER -> "none"

\* validationResult(req) after the selected rules ran: the violated fields
ValidationErrors(rules, b) ==
  CASE rules = "stripe" -> stripePaymentRules(b)
    [] rules = "paypal" -> paypalPaymentRules(b)
    [] rules = "google_pay" -> googlePayPaymentRules(b)

\* the lower bound tested with < instead of <=
AmountNegativeOnly(amount) ==
  ToNumber(amount) < 0 \/ ToNumber(amount) > MaxAmount

AmountOutOfRange(amount) ==
  ToNumber(amount) <= 0 \/ ToNumber(amount) > MaxAmount

InsecureInProduction(q) == ~q.secure /\ production

(* ------------------------------ requests ------------------------------- *)

UserIds == {Tok(n) : n \in 1..MaxUser}
VendorIds == {Tok(n) : n \in 1..MaxVendorId}

ValidatedRoutes ==
  {"/create-payment-intent", "/create-paypal-order", "/create-google-pay-payment"}

Methods == {Undef, Str("card"), Str("paypal"), Str("google_pay"), Str("bitcoin")}

Amounts ==
  {Undef, Num(-1), Num(0), Num(1), Num(MaxAmount), Num(MaxAmount + 1),
   Chars(<<"a", "b", "c">>), Chars(<<"5">>), Chars(NumberToChars(MaxAmount + 1))}

Currencies == {Undef, Str("US"), Str("USD")}

PaymentMethodIds == {Undef, Str(""), Str("pm_card_visa")}

PaymentDatas == {Undef, Obj([token |-> Undef]), Obj([token |-> Str("tok_gpay")])}

\* req.body of the routes behind validatePayment, as the JSON parser left it
PaymentBodies ==
  [method : Methods, amount : Amounts, currency : Currencies,
   paymentMethodId : PaymentMethodIds, paymentData : PaymentDatas,
   orderId : {Undef}]

\* req.body of /capture-paypal-payment
CaptureBodies ==
  [method : {Undef}, amount : {Undef}, currency : {Undef},
   paymentMethodId : {Undef}, paymentData : {Undef},
   orderId : VendorIds \cup {Undef}]

EventTypes ==
  {"payment_intent.succeeded", "payment_intent.payment_failed", "charge.refunded"}

\* a Stripe event: its type and the payment intent in data.object
Events ==
  [type : EventTypes, intent : VendorIds, userId : UserIds \cup {Undef}]

\* what a rejected promise of a vendor SDK or of createOrder carries
Errors ==
  {[message |-> "Your card was declined.", code |-> Str("card_declined")],
   [message |-> "connection error", code |-> Undef]}

CaptureStatuses == {"COMPLETED", "PENDING", "completed"}

Idle ==
  [pc |-> "idle", route |-> "none", body |-> Undef, event |-> Undef,
   sigOk |-> FALSE, secure |-> FALSE, user |-> Undef, rules |-> "none",
   nextCalls |-> 0, dispatched |-> FALSE, responses |-> <<>>,
   vendor |-> <<>>, outcomes |-> <<>>, orders |-> <<>>, created |-> <<>>,
   logs |-> <<>>]

\* res.status(status).json(body) / res.json(body) / res.send(body), sent by `by`
Respond(q, by, status, body) ==
  [q EXCEPT !.responses = Append(@, [by |-> by, status |-> status, body |-> body]),
            !.pc = "done"]

\* logger.error / logger.info
Log(q, level, message) == [q EXCEPT !.logs = Append(@, <<level, message>>)]

\* a call of a vendor SDK: the request suspends at `pc` until it settles
CallVendor(q, call, pc) == [q EXCEPT !.vendor = Append(@, call), !.pc = pc]

Settle(q, outcome) == [q EXCEPT !.outcomes = Append(@, outcome)]

\* the promise of createOrder settled
SettleOrder(q, outcome) == [q EXCEPT !.created = Append(@, outcome)]

\* createOrder(order): the request suspends at `pc` until it settles
CallCreateOrder(q, order, pc) == [q EXCEPT !.orders = Append(@, order), !.pc = pc]

Reqs == DOMAIN reqs

\* a request that protectRoute let through reaches validatePayment
ArriveValidated(r) ==
  /\ reqs[r].pc = "idle"
  /\ \E route \in ValidatedRoutes, body \in PaymentBodies \cup {Undef},
        secure \in BOOLEAN, user \in UserIds :
       reqs' = [reqs EXCEPT ![r] =
                  [Idle EXCEPT !.pc = "validate", !.route = route, !.body = body,
                               !.secure = secure, !.user = user]]
  /\ UNCHANGED production

ArriveCapture(r) ==
  /\ reqs[r].pc = "idle"
  /\ \E body \in CaptureBodies \cup {Undef}, secure \in BOOLEAN, user \in UserIds :
       reqs' = [reqs EXCEPT ![r] =
                  [Idle EXCEPT !.pc = "capture", !.route = "/capture-paypal-payment",
                               !.body = body, !.secure = secure, !.user = user]]
  /\ UNCHANGED production

\* a delivery to /webhook: the payload's event and whether the signature
\* header matches the payload under the webhook secret
Delivery(ev, sigOk) ==
  [Idle EXCEPT !.pc = "webhook", !.route = "/webhook", !.event = ev, !.sigOk = sigOk]

ArriveWebhook(r) ==
  /\ reqs[r].pc = "idle"
  /\ \E ev \in Events, sigOk \in BOOLEAN :
       reqs' = [reqs EXCEPT ![r] = Delivery(ev, sigOk)]
  /\ UNCHANGED production

(* ----------------------- validatePayment (middleware) ------------------ *)

\* lines 31-54 and the catch: up to the await of the rules' run
ValidateSelect(q) ==
  IF q.body = Undef
  THEN Respond(Log(q, "error", "Payment validation error:"), "validatePayment", 500,
               [error |-> [message |-> "Payment validation failed"]])
  ELSE IF SelectRules(q.body.method) = "none"
  THEN Respond(q, "validatePayment", 400,
               [error |-> [message |-> "Invalid payment method"]])
  ELSE [q EXCEPT !.rules = SelectRules(q.body.method), !.pc = "v_run"]

\* the transport check moved ahead of the field rules and the amount bounds
ValidateCheckTransportFirst(q) ==
  IF InsecureInProduction(q)
  THEN Respond(q, "validatePayment", 403,
               [error |-> [message |-> "Payment must be processed over HTTPS"]])
  ELSE IF ValidationErrors(q.rules, q.body) # {}
  THEN Respond(q, "validatePayment", 400,
               [error |-> [message |-> "Validation error",
                           details |-> ValidationErrors(q.rules, q.body)]])
  ELSE IF AmountOutOfRange(q.body.amount)
  THEN Respond(q, "validatePayment", 400,
               [error |-> [message |-> "Invalid amount"]])
  ELSE [q EXCEPT !.nextCalls = @ + 1, !.pc = "handler"]

\* the amount check responding without `return`, so that next() still runs
ValidateCheckNoReturn(q) ==
  IF ValidationErrors(q.rules, q.body) # {}
  THEN Respond(q, "validatePayment", 400,
               [error |-> [message |-> "Validation error",
                           details |-> ValidationErrors(q.rules, q.body)]])
  ELSE IF AmountOutOfRange(q.body.amount)
  THEN [Respond(q, "validatePayment", 400, [error |-> [message |-> "Invalid amount"]])
          EXCEPT !.nextCalls = @ + 1, !.pc = "handler"]
  ELSE IF InsecureInProduction(q)
  THEN Respond(q, "validatePayment", 403,
               [error |-> [message |-> "Payment must be processed over HTTPS"]])
  ELSE [q EXCEPT !.nextCalls = @ + 1, !.pc = "handler"]

\* lines 56-87: after the rules ran
ValidateCheck(q) ==
  IF ValidationErrors(q.rules, q.body) # {}
  THEN Respond(q, "validatePayment", 400,
               [error |-> [message |-> "Validation error",
                           details |-> ValidationErrors(q.rules, q.body)]])
  ELSE IF AmountOutOfRange(q.body.amount)
  THEN Respond(q, "validatePayment", 400,
               [error |-> [message |-> "Invalid amount"]])
  ELSE IF InsecureInProduction(q)
  THEN Respond(q, "validatePayment", 403,
               [error |-> [message |-> "Payment must be processed over HTTPS"]])
  ELSE [q EXCEPT !.nextCalls = @ + 1, !.pc = "handler"]

ValidateStart(r) ==
  /\ reqs[r].pc = "validate"
  /\ reqs' = [reqs EXCEPT ![r] = ValidateSelect(reqs[r])]
  /\ UNCHANGED production

ValidateFinish(r) ==
  /\ reqs[r].pc = "v_run"
  /\ reqs' = [reqs EXCEPT ![r] = ValidateCheck(reqs[r])]
  /\ UNCHANGED production

(* ------------------- POST /create-payment-intent ----------------------- *)

\* lines 20-29: the arguments of stripe.paymentIntents.create
CardIntentParams(q) ==
  [api |-> "stripe.paymentIntents.create", amount |-> q.body.amount,
   currency |-> q.body.currency, payment_method |-> q.body.paymentMethodId,
   confirm |-> TRUE]

\* lines 31-34
CardIntentCreated(q, intent) ==
  Respond(Settle(q, [ok |-> TRUE, value |-> intent]), "/create-payment-intent", 200,
          [clientSecret |-> intent.client_secret, paymentIntentId |-> intent.id])

\* the vendor's error replaced by a fixed message, as the other routes do
CardIntentFailedGeneric(q, err) ==
  Respond(Log(Settle(q, [ok |-> FALSE, error |-> err]),
              "error", "Stripe payment intent error:"),
          "/create-payment-intent", 500,
          [error |-> [message |-> "Failed to create payment intent", code |-> Undef]])

\* lines 35-43
CardIntentFailed(q, err) ==
  Respond(Log(Settle(q, [ok |-> FALSE, error |-> err]),
              "error", "Stripe payment intent error:"),
          "/create-payment-intent", 500,
          [error |-> [message |-> err.message, code |-> err.code]])

CreatePaymentIntentCall(r) ==
  /\ reqs[r].pc = "handler"
  /\ reqs[r].route = "/create-payment-intent"
  /\ reqs' = [reqs EXCEPT ![r] = CallVendor(reqs[r], CardIntentParams(reqs[r]), "pi_wait")]
  /\ UNCHANGED production

CreatePaymentIntentResolve(r) ==
  /\ reqs[r].pc = "pi_wait"
  /\ \E id \in VendorIds, secret \in VendorIds :
       reqs' = [reqs EXCEPT ![r] =
                  CardIntentCreated(reqs[r], [id |-> id, client_secret |-> secret])]
  /\ UNCHANGED production

CreatePaymentIntentReject(r) ==
  /\ reqs[r].pc = "pi_wait"
  /\ \E err \in Errors : reqs' = [reqs EXCEPT ![r] = CardIntentFailed(reqs[r], err)]
  /\ UNCHANGED production

(* -------------------- POST /create-paypal-order ------------------------ *)

\* lines 49-61: amount.toString() of a number or of a string
PayPalOrderParams(q) ==
  [api |-> "paypal.orders.create", intent |-> "CAPTURE",
   currency_code |-> q.body.currency, value |-> ToChars(q.body.amount)]

\* lines 64-66
PayPalOrderCreated(q, order) ==
  Respond(Settle(q, [ok |-> TRUE, value |-> order]), "/create-paypal-order", 200,
          [orderId |-> order.id])

\* lines 67-75
PayPalOrderFailed(q, err) ==
  Respond(Log(Settle(q, [ok |-> FALSE, error |-> err]),
              "error", "PayPal order creation error:"),
          "/create-paypal-order", 500,
          [error |-> [message |-> "Failed to create PayPal order",
                      details |-> err.message]])

CreatePayPalOrderCall(r) ==
  /\ reqs[r].pc = "handler"
  /\ reqs[r].route = "/create-paypal-order"
  /\ reqs' = [reqs EXCEPT ![r] = CallVendor(reqs[r], PayPalOrderParams(reqs[r]), "pp_wait")]
  /\ UNCHANGED production

CreatePayPalOrderResolve(r) ==
  /\ reqs[r].pc = "pp_wait"
  /\ \E id \in VendorIds :
       reqs' = [reqs EXCEPT ![r] = PayPalOrderCreated(reqs[r], [id |-> id])]
  /\ UNCHANGED production

CreatePayPalOrderReject(r) ==
  /\ reqs[r].pc = "pp_wait"
  /\ \E err \in Errors : reqs' = [reqs EXCEPT ![r] = PayPalOrderFailed(reqs[r], err)]
  /\ UNCHANGED production

(* ------------------- POST /capture-paypal-payment ---------------------- *)

\* lines 101-109: the catch of the capture handler
CaptureFailed(q, message) ==
  Respond(Log(q, "error", "PayPal payment capture error:"),
          "/capture-paypal-payment", 500,
          [error |-> [message |-> "Failed to capture PayPal payment",
                      details |-> message]])

\* lines 81-83: destructuring an absent body throws into the catch
CaptureStart(q) ==
  IF q.body = Undef
  THEN CaptureFailed(q, "Cannot destructure property 'orderId'")
  ELSE CallVendor(q, [api |-> "paypal.orders.capture", orderId |-> q.body.orderId],
                  "cap_wait")

\* the status compared without regard to case
CaptureCompletedAnyCase(status) == status \in {"COMPLETED", "completed"}

\* line 85
CaptureCompleted(status) == status = "COMPLETED"

\* lines 87-92
CaptureOrder(q) ==
  [userId |-> q.user, paymentId |-> q.body.orderId,
   paymentMethod |-> "paypal", status |-> "confirmed"]

\* lines 85-100: after the capture call resolved
CaptureResolved(q, capture) ==
  IF CaptureCompleted(capture.status)
  THEN CallCreateOrder(Settle(q, [ok |-> TRUE, value |-> capture]),
                       CaptureOrder(q), "cap_order_wait")
  ELSE CaptureFailed(Settle(q, [ok |-> TRUE, value |-> capture]),
                     "Payment not completed")

\* lines 94-97: the capture the response names is the settled vendor result
CaptureSucceeded(q) ==
  Respond(q, "/capture-paypal-payment", 200,
          [success |-> TRUE, captureId |-> q.outcomes[1].value.id])

CaptureCall(r) ==
  /\ reqs[r].pc = "capture"
  /\ reqs' = [reqs EXCEPT ![r] = CaptureStart(reqs[r])]
  /\ UNCHANGED production

CaptureResolve(r) ==
  /\ reqs[r].pc = "cap_wait"
  /\ \E id \in VendorIds, status \in CaptureStatuses :
       reqs' = [reqs EXCEPT ![r] = CaptureResolved(reqs[r], [id |-> id, status |-> status])]
  /\ UNCHANGED production

CaptureReject(r) ==
  /\ reqs[r].pc = "cap_wait"
  /\ \E err \in Errors :
       reqs' = [reqs EXCEPT ![r] =
                  CaptureFailed(Settle(reqs[r], [ok |-> FALSE, error |-> err]), err.message)]
  /\ UNCHANGED production

CaptureOrderResolve(r) ==
  /\ reqs[r].pc = "cap_order_wait"
  /\ reqs' = [reqs EXCEPT ![r] = CaptureSucceeded(SettleOrder(reqs[r], [ok |-> TRUE]))]
  /\ UNCHANGED production

CaptureOrderReject(r) ==
  /\ reqs[r].pc = "cap_order_wait"
  /\ \E err \in Errors :
       reqs' = [reqs EXCEPT ![r] =
                  CaptureFailed(SettleOrder(reqs[r], [ok |-> FALSE, error |-> err]),
                                err.message)]
  /\ UNCHANGED production

(* ------------------ POST /create-google-pay-payment -------------------- *)

\* lines 138-146: the catch of the Google Pay handler
GooglePayFailed(q, message) ==
  Respond(Log(q, "error", "Google Pay payment error:"),
          "/create-google-pay-payment", 500,
          [error |-> [message |-> "Failed to process Google Pay payment",
                      details |-> message]])

\* lines 115-123: reading paymentData.token of an absent paymentData throws
GooglePayStart(q) ==
  IF q.body.paymentData = Undef
  THEN GooglePayFailed(q, "Cannot read properties of undefined (reading 'token')")
  ELSE CallVendor(q, [api |-> "stripe.paymentMethods.create", type |-> "card",
                      token |-> TokenOf(q.body.paymentData)], "gp_pm_wait")

\* the intent created against the body's paymentMethodId, as the card route does
GooglePayIntentParamsFromBody(q, paymentMethod) ==
  [api |-> "stripe.paymentIntents.create", amount |-> q.body.amount,
   currency |-> q.body.currency, payment_method |-> q.body.paymentMethodId,
   confirm |-> TRUE]

\* lines 126-132: the arguments of stripe.paymentIntents.create
GooglePayIntentParams(q, paymentMethod) ==
  [api |-> "stripe.paymentIntents.create", amount |-> q.body.amount,
   currency |-> q.body.currency, payment_method |-> paymentMethod.id,
   confirm |-> TRUE]

\* lines 118-132: after the payment method was created
GooglePayMethodCreated(q, paymentMethod) ==
  CallVendor(Settle(q, [ok |-> TRUE, value |-> paymentMethod]),
             GooglePayIntentParams(q, paymentMethod), "gp_pi_wait")

\* lines 134-137
GooglePayIntentCreated(q, intent) ==
  Respond(Settle(q, [ok |-> TRUE, value |-> intent]), "/create-google-pay-payment", 200,
          [success |-> TRUE, paymentIntentId |-> intent.id])

GooglePayCall(r) ==
  /\ reqs[r].pc = "handler"
  /\ reqs[r].route = "/create-google-pay-payment"
  /\ reqs' = [reqs EXCEPT ![r] = GooglePayStart(reqs[r])]
  /\ UNCHANGED production

GooglePayMethodResolve(r) ==
  /\ reqs[r].pc = "gp_pm_wait"
  /\ \E id \in VendorIds :
       reqs' = [reqs EXCEPT ![r] = GooglePayMethodCreated(reqs[r], [id |-> id])]
  /\ UNCHANGED production

GooglePayMethodReject(r) ==
  /\ reqs[r].pc = "gp_pm_wait"
  /\ \E err \in Errors :
       reqs' = [reqs EXCEPT ![r] =
                  GooglePayFailed(Settle(reqs[r], [ok |-> FALSE, error |-> err]), err.message)]
  /\ UNCHANGED production

GooglePayIntentResolve(r) ==
  /\ reqs[r].pc = "gp_pi_wait"
  /\ \E id \in VendorIds :
       reqs' = [reqs EXCEPT ![r] = GooglePayIntentCreated(reqs[r], [id |-> id])]
  /\ UNCHANGED production

GooglePayIntentReject(r) ==
  /\ reqs[r].pc = "gp_pi_wait"
  /\ \E err \in Errors :
       reqs' = [reqs EXCEPT ![r] =
                  GooglePayFailed(Settle(reqs[r], [ok |-> FALSE, error |-> err]), err.message)]
  /\ UNCHANGED production

(* --------------------------- POST /webhook ----------------------------- *)

\* the event parsed from the payload without verifying the signature
SignatureUnchecked(q) == TRUE

\* lines 154-163: stripe.webhooks.constructEvent returns the payload's event
\* when the signature matches, and throws otherwise
SignatureVerified(q) == q.sigOk

\* lines 186-193: the order handleSuccessfulPayment creates
WebhookOrder(paymentIntent) ==
  [userId |-> paymentIntent.userId, paymentId |-> paymentIntent.intent,
   paymentMethod |-> "card", status |-> "confirmed"]

\* line 179
WebhookReceived(q) == Respond(q, "/webhook", 200, [received |-> TRUE])

\* a dispatch that skips createOrder when another delivery already created
\* the order of this payment intent
WebhookDispatchDedup(q) ==
  CASE q.event.type = "payment_intent.succeeded"
         /\ \A o \in DOMAIN reqs :
              \A i \in 1..Len(reqs[o].orders) :
                 reqs[o].orders[i].paymentId # q.event.intent ->
         CallCreateOrder(q, WebhookOrder(q.event), "wh_order_wait")
    [] q.event.type = "payment_intent.payment_failed" ->
         WebhookReceived(Log(q, "error", "Payment failed:"))
    [] OTHER ->
         WebhookReceived(Log(q, "info", "Unhandled event type"))

\* lines 165-179: the switch on event.type, up to the first suspension
WebhookDispatch(q) ==
  CASE q.event.type = "payment_intent.succeeded" ->
         CallCreateOrder(q, WebhookOrder(q.event), "wh_order_wait")
    [] q.event.type = "payment_intent.payment_failed" ->
         WebhookReceived(Log(q, "error", "Payment failed:"))
    [] OTHER ->
         WebhookReceived(Log(q, "info", "Unhandled event type"))

\* lines 151-179
WebhookStart(q) ==
  IF ~SignatureVerified(q)
  THEN Respond(Log(q, "error", "Webhook signature verification failed:"),
               "/webhook", 400, "Webhook Error")
  ELSE WebhookDispatch([q EXCEPT !.dispatched = TRUE])

\* the error of createOrder logged and swallowed by handleSuccessfulPayment
WebhookFailedSwallowed(q) ==
  WebhookReceived(Log(q, "error", "Error handling successful payment:"))

\* lines 194-197 and 180-183: createOrder threw; both catches log
WebhookFailed(q) ==
  Respond(Log(Log(q, "error", "Error handling successful payment:"),
              "error", "Webhook processing error:"),
          "/webhook", 500, [error |-> "Webhook processing failed"])

WebhookVerify(r) ==
  /\ reqs[r].pc = "webhook"
  /\ reqs' = [reqs EXCEPT ![r] = WebhookStart(reqs[r])]
  /\ UNCHANGED production

WebhookOrderResolve(r) ==
  /\ reqs[r].pc = "wh_order_wait"
  /\ reqs' = [reqs EXCEPT ![r] = WebhookReceived(SettleOrder(reqs[r], [ok |-> TRUE]))]
  /\ UNCHANGED production

WebhookOrderReject(r) ==
  /\ reqs[r].pc = "wh_order_wait"
  /\ \E err \in Errors :
       reqs' = [reqs EXCEPT ![r] =
                  WebhookFailed(SettleOrder(reqs[r], [ok |-> FALSE, error |-> err]))]
  /\ UNCHANGED production

\* the vendor delivers again an event it has delivered: every delivery of a
\* run carries the same event
Redeliver(r) ==
  /\ reqs[r].pc = "idle"
  /\ \E ev \in Events, sigOk \in BOOLEAN :
       /\ \A o \in Reqs : reqs[o].pc # "idle" => reqs[o].event = ev
       /\ reqs' = [reqs EXCEPT ![r] = Delivery(ev, sigOk)]
  /\ UNCHANGED production

(* --------------------------- specifications ---------------------------- *)

\* one request through the router: requests share no state, so each is
\* followed from its arrival to its response on its own
Init ==
  /\ reqs = [r \in {1} |-> Idle]
  /\ production \in BOOLEAN

Next ==
  \/ \E r \in Reqs : ArriveValidated(r)
  \/ \E r \in Reqs : ArriveCapture(r)
  \/ \E r \in Reqs : ArriveWebhook(r)
  \/ \E r \in Reqs : ValidateStart(r)
  \/ \E r \in Reqs : ValidateFinish(r)
  \/ \E r \in Reqs : CreatePaymentIntentCall(r)
  \/ \E r \in Reqs : CreatePaymentIntentResolve(r)
  \/ \E r \in Reqs : CreatePaymentIntentReject(r)
  \/ \E r \in Reqs : CreatePayPalOrderCall(r)
  \/ \E r \in Reqs : CreatePayPalOrderResolve(r)
  \/ \E r \in Reqs : CreatePayPalOrderReject(r)
  \/ \E r \in Reqs : CaptureCall(r)
  \/ \E r \in Reqs : CaptureResolve(r)
  \/ \E r \in Reqs : CaptureReject(r)
  \/ \E r \in Reqs : CaptureOrderResolve(r)
  \/ \E r \in Reqs : CaptureOrderReject(r)
  \/ \E r \in Reqs : GooglePayCall(r)
  \/ \E r \in Reqs : GooglePayMethodResolve(r)
  \/ \E r \in Reqs : GooglePayMethodReject(r)
  \/ \E r \in Reqs : GooglePayIntentResolve(r)
  \/ \E r \in Reqs : GooglePayIntentReject(r)
  \/ \E r \in Reqs : WebhookVerify(r)
  \/ \E r \in Reqs : WebhookOrderResolve(r)
  \/ \E r \in Reqs : WebhookOrderReject(r)

Spec == Init /\ [][Next]_vars

\* deliveries of one event to /webhook, overlapping in flight
InitReplay ==
  /\ reqs = [r \in 1..MaxDeliveries |-> Idle]
  /\ production \in BOOLEAN

NextReplay ==
  \/ \E r \in Reqs : Redeliver(r)
  \/ \E r \in Reqs : WebhookVerify(r)
  \/ \E r \in Reqs : WebhookOrderResolve(r)
  \/ \E r \in Reqs : WebhookOrderReject(r)

SpecReplay == InitReplay /\ [][NextReplay]_vars

(* ------------------------------ properties ----------------------------- *)

ValidationOver(q) == q.route \in ValidatedRoutes /\ q.pc \notin {"idle", "validate", "v_run"}

KnownMethods == {Str("card"), Str("paypal"), Str("google_pay")}

\* the single response of a request, with the given sender and status
Answered(q, by, status) ==
  /\ q.pc = "done"
  /\ Len(q.responses) = 1
  /\ q.responses[1].by = by
  /\ q.responses[1].status = status

WebhookPastVerify(q) == q.route = "/webhook" /\ q.pc \notin {"idle", "webhook"}

\* C1: a delivery whose signature does not verify never reaches the dispatch,
\* calls createOrder 0 times and is answered 400; a verified
\* payment_intent.succeeded calls createOrder exactly once, with the userId of
\* the intent's metadata, the intent id as paymentId, 'card' and 'confirmed'.
C1_WebhookSignatureGate ==
  \A r \in Reqs :
    LET q == reqs[r] IN
      WebhookPastVerify(q) =>
        /\ ~q.sigOk =>
             /\ ~q.dispatched
             /\ q.orders = <<>>
             /\ Answered(q, "/webhook", 400)
        /\ (q.sigOk /\ q.event.type = "payment_intent.succeeded") =>
             /\ q.dispatched
             /\ q.orders = <<[userId |-> q.event.userId, paymentId |-> q.event.intent,
                              paymentMethod |-> "card", status |-> "confirmed"]>>

C1_Witness ==
  \E r, o \in Reqs :
    /\ ~reqs[r].sigOk /\ Answered(reqs[r], "/webhook", 400)
    /\ reqs[o].sigOk /\ reqs[o].event.type = "payment_intent.succeeded"
    /\ reqs[o].pc = "done" /\ Len(reqs[o].orders) = 1
    /\ reqs[o].orders[1].userId \in UserIds

\* C2: a capture whose vendor result has status exactly COMPLETED calls
\* createOrder exactly once with the caller's id, the request's orderId,
\* 'paypal' and 'confirmed'; any other status, or a throwing vendor call,
\* calls createOrder never and is answered 500.
C2_CaptureCompletedOnly ==
  \A r \in Reqs :
    LET q == reqs[r] IN
      (q.route = "/capture-paypal-payment" /\ q.outcomes # <<>>) =>
        IF q.outcomes[1].ok /\ q.outcomes[1].value.status = "COMPLETED"
        THEN q.orders = <<[userId |-> q.user, paymentId |-> q.body.orderId,
                           paymentMethod |-> "paypal", status |-> "confirmed"]>>
        ELSE q.orders = <<>> /\ Answered(q, "/capture-paypal-payment", 500)

C2_Witness ==
  \E r \in Reqs :
    /\ Answered(reqs[r], "/capture-paypal-payment", 200)
    /\ reqs[r].outcomes[1].value.status = "COMPLETED"
    /\ Len(reqs[r].orders) = 1
    /\ reqs[r].orders[1].paymentId \in VendorIds

\* C3 as stated: in production over a non-secure connection validation answers
\* 403 whatever the field rules and the amount bounds would say.
C3_TransportCheckedFirst ==
  \A r \in Reqs :
    LET q == reqs[r] IN
      (ValidationOver(q) /\ production /\ ~q.secure /\ q.body # Undef) =>
        Answered(q, "validatePayment", 403)

PassesFieldChecks(b) ==
  /\ b.method \in KnownMethods
  /\ ValidationErrors(SelectRules(b.method), b) = {}
  /\ ~(ToNumber(b.amount) <= 0 \/ ToNumber(b.amount) > MaxAmount)

\* C3 amended: in production over a non-secure connection validation never
\* passes control on; it answers 403 exactly when the method is known, every
\* field rule passes and the amount is within bounds, and 400 when one of
\* those checks fails.
C3_TransportCheckedLast ==
  \A r \in Reqs :
    LET q == reqs[r] IN
      (ValidationOver(q) /\ production /\ ~q.secure /\ q.body # Undef) =>
        /\ q.nextCalls = 0
        /\ IF PassesFieldChecks(q.body)
           THEN Answered(q, "validatePayment", 403)
           ELSE Answered(q, "validatePayment", 400)

C3_Witness ==
  \E r \in Reqs :
    /\ production /\ ~reqs[r].secure
    /\ Answered(reqs[r], "validatePayment", 403)
    /\ reqs[r].rules = "google_pay"

\* C4: a request whose body's method is none of card, paypal, google_pay
\* (a missing method included) is answered 400 by validation on every route
\* behind it, the handler is never entered and no vendor SDK call is made.
C4_UnknownMethodRejected ==
  \A r \in Reqs :
    LET q == reqs[r] IN
      (q.route \in ValidatedRoutes /\ q.pc \notin {"idle", "validate"}
         /\ q.body # Undef /\ q.body.method \notin KnownMethods) =>
        /\ Answered(q, "validatePayment", 400)
        /\ q.nextCalls = 0
        /\ q.vendor = <<>>

C4_Witness ==
  \E r \in Reqs :
    /\ reqs[r].route = "/create-payment-intent"
    /\ reqs[r].body # Undef /\ reqs[r].body.method = Undef
    /\ reqs[r].body.amount = Num(1) /\ reqs[r].body.currency = Str("USD")
    /\ reqs[r].body.paymentMethodId = Str("pm_card_visa")
    /\ Answered(reqs[r], "validatePayment", 400)

\* C5: a request whose amount is <= 0 or > 999,999 (a number, or the string
\* "1000000") is answered 400 by validation whatever its method, the
\* deployment mode and the connection, and the handler is never entered.
C5_AmountBoundsRejected ==
  \A r \in Reqs :
    LET q == reqs[r] IN
      (ValidationOver(q) /\ q.body # Undef
         /\ \/ /\ q.body.amount.t = "number"
               /\ (q.body.amount.n <= 0 \/ q.body.amount.n > MaxAmount)
            \/ q.body.amount = Chars(<<"1", "0", "0", "0", "0", "0", "0">>)) =>
        /\ Answered(q, "validatePayment", 400)
        /\ q.nextCalls = 0

C5_Witness ==
  \E r \in Reqs :
    /\ production /\ ~reqs[r].secure
    /\ reqs[r].body # Undef /\ reqs[r].body.amount = Num(0)
    /\ reqs[r].rules = "paypal" /\ reqs[r].body.currency = Str("USD")
    /\ Answered(reqs[r], "validatePayment", 400)

\* the createOrder calls made so far, over all deliveries
OrderCalls ==
  {c \in Reqs \X (1..Cardinality(Reqs)) : c[2] <= Len(reqs[c[1]].orders)}

\* the verified payment_intent.succeeded deliveries that were dispatched
Dispatched ==
  {r \in Reqs : /\ WebhookPastVerify(reqs[r]) /\ reqs[r].sigOk
                /\ reqs[r].event.type = "payment_intent.succeeded"}

\* C6: no deduplication: N verified deliveries of one payment_intent.succeeded
\* event, in sequence or overlapping, make exactly N createOrder calls, all
\* with the same paymentId.
C6_NoDeduplication ==
  /\ Cardinality(OrderCalls) = Cardinality(Dispatched)
  /\ \A c \in OrderCalls : \A r \in Dispatched :
       reqs[c[1]].orders[c[2]].paymentId = reqs[r].event.intent

C6_Witness ==
  /\ Cardinality(Dispatched) >= 2
  /\ Cardinality(OrderCalls) = Cardinality(Dispatched)
  /\ \E r, o \in Dispatched :
       r # o /\ reqs[r].pc = "wh_order_wait" /\ reqs[o].pc = "wh_order_wait"

\* C7: a validated request to the card route makes exactly one payment-intent
\* creation call; on success the response carries the vendor's client secret
\* and intent id; on failure it is 500 with the vendor error's message and
\* code unchanged, and the call is not repeated.
C7_CardIntentOutcome ==
  \A r \in Reqs :
    LET q == reqs[r] IN
      (q.route = "/create-payment-intent" /\ q.pc \in {"pi_wait", "done"}
         /\ q.nextCalls = 1) =>
        /\ Len(q.vendor) = 1
        /\ q.vendor[1].api = "stripe.paymentIntents.create"
        /\ q.pc = "done" =>
             /\ Len(q.outcomes) = 1
             /\ Len(q.responses) = 1
             /\ q.responses[1].status = IF q.outcomes[1].ok THEN 200 ELSE 500
             /\ q.responses[1].body =
                  IF q.outcomes[1].ok
                  THEN [clientSecret |-> q.outcomes[1].value.client_secret,
                        paymentIntentId |-> q.outcomes[1].value.id]
                  ELSE [error |-> [message |-> q.outcomes[1].error.message,
                                   code |-> q.outcomes[1].error.code]]

C7_Witness ==
  \E r \in Reqs :
    /\ Answered(reqs[r], "/create-payment-intent", 500)
    /\ reqs[r].responses[1].body.error.code = Str("card_declined")
    /\ Len(reqs[r].vendor) = 1

\* C8: a verified event of type payment_intent.payment_failed, or of any type
\* but payment_intent.succeeded, never calls createOrder and is acknowledged
\* with {received: true}; a verified payment_intent.succeeded whose
\* createOrder throws is answered 500 with the generic message, never with
\* the acknowledgement.
C8_WebhookDispatchOutcome ==
  \A r \in Reqs :
    LET q == reqs[r] IN
      (WebhookPastVerify(q) /\ q.sigOk) =>
        /\ q.event.type # "payment_intent.succeeded" =>
             /\ q.orders = <<>>
             /\ Answered(q, "/webhook", 200)
             /\ q.responses[1].body = [received |-> TRUE]
        /\ (q.event.type = "payment_intent.succeeded" /\ q.created # <<>>
              /\ ~q.created[1].ok) =>
             /\ Answered(q, "/webhook", 500)
             /\ q.responses[1].body = [error |-> "Webhook processing failed"]

C8_Witness ==
  \E r \in Reqs :
    /\ reqs[r].sigOk /\ reqs[r].event.type = "payment_intent.succeeded"
    /\ reqs[r].created # <<>> /\ ~reqs[r].created[1].ok
    /\ Answered(reqs[r], "/webhook", 500)

\* C9: the Google Pay route creates the payment intent only after the payment
\* method was created, with the id that call returned; a failed payment-method
\* creation creates no intent and is answered 500; a failed intent creation
\* is answered 500 with no further vendor call.
C9_GooglePaySequence ==
  \A r \in Reqs :
    LET q == reqs[r] IN
      q.route = "/create-google-pay-payment" =>
        /\ \A i \in 1..Len(q.vendor) :
             q.vendor[i].api = "stripe.paymentIntents.create" =>
               /\ i = 2
               /\ q.vendor[1].api = "stripe.paymentMethods.create"
               /\ q.outcomes[1].ok
               /\ q.vendor[2].payment_method = q.outcomes[1].value.id
        /\ (q.outcomes # <<>> /\ ~q.outcomes[1].ok) =>
             /\ Len(q.vendor) = 1
             /\ Answered(q, "/create-google-pay-payment", 500)
        /\ (Len(q.outcomes) = 2 /\ ~q.outcomes[2].ok) =>
             /\ Len(q.vendor) = 2
             /\ Answered(q, "/create-google-pay-payment", 500)

C9_Witness ==
  \E r \in Reqs :
    /\ reqs[r].route = "/create-google-pay-payment"
    /\ Len(reqs[r].outcomes) = 2
    /\ reqs[r].outcomes[1].ok /\ ~reqs[r].outcomes[2].ok
    /\ reqs[r].pc = "done"

\* C10: every request gets exactly one response and no call is repeated; the
\* validation middleware either responds once (400, 403 or 500) and never
\* passes control on, or passes control on once having sent no response.
C10_SingleResponse ==
  \A r \in Reqs :
    LET q == reqs[r] IN
      /\ Len(q.responses) = (IF q.pc = "done" THEN 1 ELSE 0)
      /\ q.nextCalls <= 1
      /\ Len(q.orders) <= 1
      /\ \A i, j \in 1..Len(q.vendor) : q.vendor[i].api = q.vendor[j].api => i = j
      /\ ValidationOver(q) =>
           \/ /\ q.nextCalls = 0
              /\ q.pc = "done"
              /\ q.responses[1].by = "validatePayment"
              /\ q.responses[1].status \in {400, 403, 500}
           \/ /\ q.nextCalls = 1
              /\ \A i \in 1..Len(q.responses) : q.responses[i].by = q.route

C10_Witness ==
  \E r \in Reqs :
    /\ reqs[r].route = "/create-paypal-order"
    /\ reqs[r].nextCalls = 1
    /\ Answered(reqs[r], "/create-paypal-order", 500)
    /\ Len(reqs[r].vendor) = 1

====
